---- MODULE Spec2Model ----
(***************************************************************************)
(* Model of torrent::Download (src/torrent/download.cc): the per-torrent   *)
(* session object, its registry m_downloads, its start/stop lifecycle, the *)
(* service() dispatch (HASH_COMPLETED, CHOKE_CYCLE) and add_peers().       *)
(***************************************************************************)
EXTENDS Integers, Sequences, FiniteSets, TLC

\* ------------------------------------------------------------------ bounds
NumSessions == 2      \* Download objects that can exist at once
NumContents == 2      \* distinct info dictionaries (hence info hashes)
NumChunks   == 1      \* get_chunkcount() of the storage
MaxEvents   == 3      \* tracker events recorded per session
MaxTime     == 4      \* last value of the clock
chokeCycle  == 1      \* settings().chokeCycle, scaled
chokeGracePeriod == 1 \* settings().chokeGracePeriod, scaled
MaxUploads  == 2      \* largest settings().maxUploads, the limit behind canUnchoke()
NumConns    == 3      \* connections of the choke scenario
MaxRate     == 1      \* largest transfer rate
NumHosts    == 3      \* host names of peer candidates
NumPorts    == 1      \* ports of peer candidates
NumPeerIds  == 1      \* peer ids beyond the first (ids are 0..NumPeerIds)
MaxPeers    == 2      \* longest candidate list passed to add_peers

SessionIds == 1..NumSessions
ContentIds == 1..NumContents

HASH_COMPLETED == "HASH_COMPLETED"
CHOKE_CYCLE    == "CHOKE_CYCLE"
TRACKER_STARTED == "started"
TRACKER_STOPPED == "stopped"

VARIABLES
  m_downloads,  \* Download::m_downloads: the registry, a list of sessions
  dl,           \* per session: the Download object's members and resources
  events,       \* per session: the tracker events send_state() was given
  tasks,        \* the scheduler's queue of [time, d, arg]
  clock,        \* Timer::current()
  cache,        \* Timer::cache(): the time of the running scheduler round
  conns,        \* per session: state().connections()
  avail,        \* per session: state().available_peers()
  handshakes,   \* PeerHandshake::handshakes()
  result,       \* outcome of the last operation
  crashed       \* the process was brought down by undefined behaviour

vars == <<m_downloads, dl, events, tasks, clock, cache, conns, avail,
          handshakes, result, crashed>>

\* ------------------------------------------------------------ sequences
\* std::find / std::find_if: the first of the matching positions I, 0 for end()
First(I) == IF I = {} THEN 0 ELSE CHOOSE i \in I : \A j \in I : i <= j

RemoveAt(s, i) == SubSeq(s, 1, i - 1) \o SubSeq(s, i + 1, Len(s))

Range(s) == {s[i] : i \in 1..Len(s)}

\* ------------------------------------------------------------ the object
\* The members of a Download that does not exist (freed memory).
NoDownload ==
  [alive |-> FALSE, hash |-> 0, m_checked |-> FALSE, m_started |-> FALSE,
   m_tracker |-> FALSE, is_busy |-> FALSE, filesOpen |-> FALSE,
   hashQueued |-> FALSE, chunkCompleted |-> 0, bitfield |-> {},
   maxUploads |-> 0]

NoResult == [op |-> "none", d |-> 0, err |-> "none", cause |-> "none"]

\* Torrent metadata handed to the constructor.
Bencodes ==
  [info : {"missing", "noname", "badfiles", "ok"}, content : ContentIds,
   announce : {"missing", "ok"}, openOk : BOOLEAN]

\* calcHash(b["info"]): the digest of the info dictionary.
calcHash(b) == b.content

\* The statements of the constructor's try block, up to the first one that
\* throws: what was thrown and which resources had been acquired by then.
CtorTry(b) ==
  IF b.info \in {"missing", "noname"}
    THEN [thrown |-> "bencode_error", filesOpen |-> FALSE, m_tracker |-> FALSE]
  ELSE IF b.info = "badfiles"
    THEN [thrown |-> "bencode_error", filesOpen |-> FALSE, m_tracker |-> FALSE]
  ELSE IF ~b.openOk
    THEN [thrown |-> "local_error", filesOpen |-> TRUE, m_tracker |-> FALSE]
  ELSE IF b.announce = "missing"
    THEN [thrown |-> "bencode_error", filesOpen |-> TRUE, m_tracker |-> TRUE]
  ELSE [thrown |-> "none", filesOpen |-> TRUE, m_tracker |-> TRUE]

\* Variant of the handlers that forgets closeAll().
CtorCatchLeaky(t) ==
  [err |-> IF t.thrown = "bencode_error" THEN "local_error: Bad torrent file"
           ELSE "local_error",
   filesOpen |-> t.filesOpen, m_tracker |-> FALSE]

\* The two catch handlers: closeAll(), delete m_tracker, throw.
CtorCatch(t) ==
  [err |-> IF t.thrown = "bencode_error" THEN "local_error: Bad torrent file"
           ELSE "local_error",
   filesOpen |-> FALSE, m_tracker |-> FALSE]

\* std::find_if over the registry reg of the objects D: the first session
\* whose hash is the one asked for, 0 for NULL.
FindDownload(reg, D, hash) ==
  LET i == First({k \in 1..Len(reg) : D[reg[k]].hash = hash})
  IN IF i = 0 THEN 0 ELSE reg[i]

\* Download::getDownload
getDownload(hash) == FindDownload(m_downloads, dl, hash)

\* Download::Download(const bencode& b) on the free slot d.
Download(d, b) ==
  /\ ~crashed
  /\ ~dl[d].alive
  /\ LET t == CtorTry(b) IN
       IF t.thrown = "none"
       THEN /\ dl' = [dl EXCEPT ![d] =
                        [NoDownload EXCEPT !.alive = TRUE, !.hash = calcHash(b),
                                           !.filesOpen = TRUE, !.m_tracker = TRUE,
                                           !.hashQueued = TRUE,
                                           !.maxUploads = MaxUploads]]
            /\ result' = [op |-> "Download", d |-> d, err |-> "none", cause |-> "none"]
       ELSE LET c == CtorCatch(t) IN
            /\ dl' = [dl EXCEPT ![d] =
                        [NoDownload EXCEPT !.filesOpen = c.filesOpen,
                                           !.m_tracker = c.m_tracker]]
            /\ result' = [op |-> "Download", d |-> d, err |-> c.err, cause |-> t.thrown]
  /\ events' = [events EXCEPT ![d] = <<>>]
  /\ conns' = [conns EXCEPT ![d] = <<>>]
  /\ avail' = [avail EXCEPT ![d] = <<>>]
  /\ UNCHANGED <<m_downloads, tasks, clock, cache, handshakes, crashed>>

\* The caller's registration of a constructed session (register(session)):
\* a second session with the same content id is refused.
Register(d) ==
  /\ ~crashed
  /\ dl[d].alive
  /\ d \notin Range(m_downloads)
  /\ IF getDownload(dl[d].hash) # 0
     THEN /\ result' = [op |-> "Register", d |-> d, err |-> "internal_error",
                        cause |-> "duplicate"]
          /\ UNCHANGED m_downloads
     ELSE /\ result' = [op |-> "Register", d |-> d, err |-> "none", cause |-> "none"]
          /\ m_downloads' = Append(m_downloads, d)
  /\ UNCHANGED <<dl, events, tasks, clock, cache, conns, avail, handshakes, crashed>>

\* Service::insertService(time, arg): queue a task for d, kept in time order.
insertService(q, time, d, arg) ==
  LET n == Cardinality({i \in 1..Len(q) : q[i].time <= time})
  IN SubSeq(q, 1, n) \o <<[time |-> time, d |-> d, arg |-> arg]>>
       \o SubSeq(q, n + 1, Len(q))

\* Service::removeService(arg): drop the tasks of d with that argument.
removeService(q, d, arg) == SelectSeq(q, LAMBDA k : ~(k.d = d /\ k.arg = arg))

\* m_downloads.erase(std::find(begin, end, this)): when this is not in the
\* list find returns end() and erase(end()) is undefined; the outcomes kept
\* are no effect, the loss of the last element, and a crash.
EraseOutcomes(reg, d) ==
  IF d \in Range(reg)
  THEN {[reg |-> RemoveAt(reg, First({k \in 1..Len(reg) : reg[k] = d})),
         crashed |-> FALSE]}
  ELSE {[reg |-> reg, crashed |-> FALSE],
        [reg |-> SubSeq(reg, 1, Len(reg) - 1), crashed |-> FALSE],
        [reg |-> reg, crashed |-> TRUE]}

\* Download::~Download: the tracker is deleted and the session leaves the
\* registry; the members go with the object (the storage is closed, the
\* Service base drops the object's tasks and the queued file check).
DownloadDtor(d) ==
  /\ ~crashed
  /\ dl[d].alive
  /\ \E o \in EraseOutcomes(m_downloads, d) :
       /\ m_downloads' = o.reg
       /\ crashed' = o.crashed
  /\ dl' = [dl EXCEPT ![d] = NoDownload]
  /\ events' = [events EXCEPT ![d] = <<>>]
  /\ conns' = [conns EXCEPT ![d] = <<>>]
  /\ avail' = [avail EXCEPT ![d] = <<>>]
  /\ tasks' = SelectSeq(tasks, LAMBDA k : k.d # d)
  /\ result' = [op |-> "~Download", d |-> d, err |-> "none", cause |-> "none"]
  /\ UNCHANGED <<clock, cache, handshakes>>

\* TrackerControl::send_state(event): the event goes out and a request is
\* outstanding until the tracker answers.
send_state(d, ev) ==
  /\ events' = [events EXCEPT ![d] = Append(@, ev)]

\* Variant of start() without the early return for a started session.
startNoGuard(d) ==
  /\ ~crashed
  /\ dl[d].alive
  /\ Len(events[d]) < MaxEvents
  /\ IF dl[d].m_checked
       THEN /\ send_state(d, TRACKER_STARTED)
            /\ dl' = [dl EXCEPT ![d].m_started = TRUE, ![d].is_busy = TRUE]
       ELSE /\ dl' = [dl EXCEPT ![d].m_started = TRUE]
            /\ UNCHANGED events
  /\ tasks' = insertService(tasks, clock + chokeCycle * 2, d, CHOKE_CYCLE)
  /\ result' = [op |-> "start", d |-> d, err |-> "none",
                cause |-> IF dl[d].m_started THEN "return" ELSE "none"]
  /\ UNCHANGED <<m_downloads, clock, cache, conns, avail, handshakes, crashed>>

\* Variant of start() that announces without looking at m_checked.
startEager(d) ==
  /\ ~crashed
  /\ dl[d].alive
  /\ Len(events[d]) < MaxEvents
  /\ IF dl[d].m_started
     THEN UNCHANGED <<dl, events, tasks>>
     ELSE /\ send_state(d, TRACKER_STARTED)
          /\ dl' = [dl EXCEPT ![d].m_started = TRUE, ![d].is_busy = TRUE]
          /\ tasks' = insertService(tasks, clock + chokeCycle * 2, d, CHOKE_CYCLE)
  /\ result' = [op |-> "start", d |-> d, err |-> "none",
                cause |-> IF dl[d].m_started THEN "return" ELSE "none"]
  /\ UNCHANGED <<m_downloads, clock, cache, conns, avail, handshakes, crashed>>

\* Download::start
start(d) ==
  /\ ~crashed
  /\ dl[d].alive
  /\ Len(events[d]) < MaxEvents
  /\ IF dl[d].m_started
     THEN UNCHANGED <<dl, events, tasks>>
     ELSE /\ IF dl[d].m_checked
               THEN /\ send_state(d, TRACKER_STARTED)
                    /\ dl' = [dl EXCEPT ![d].m_started = TRUE, ![d].is_busy = TRUE]
               ELSE /\ dl' = [dl EXCEPT ![d].m_started = TRUE]
                    /\ UNCHANGED events
          /\ tasks' = insertService(tasks, clock + chokeCycle * 2, d, CHOKE_CYCLE)
  /\ result' = [op |-> "start", d |-> d, err |-> "none",
                cause |-> IF dl[d].m_started THEN "return" ELSE "none"]
  /\ UNCHANGED <<m_downloads, clock, cache, conns, avail, handshakes, crashed>>

\* Variant of stop() that sends nothing to the tracker.
stopSilent(d) ==
  /\ ~crashed
  /\ dl[d].alive
  /\ Len(events[d]) < MaxEvents
  /\ IF ~dl[d].m_started
     THEN UNCHANGED <<dl, tasks>>
     ELSE /\ dl' = [dl EXCEPT ![d].m_started = FALSE]
          /\ tasks' = removeService(tasks, d, CHOKE_CYCLE)
  /\ UNCHANGED events
  /\ result' = [op |-> "stop", d |-> d, err |-> "none",
                cause |-> IF ~dl[d].m_started THEN "return" ELSE "none"]
  /\ UNCHANGED <<m_downloads, clock, cache, conns, avail, handshakes, crashed>>

\* Variant of stop() that leaves the choke cycle in the task queue.
stopKeepsCycle(d) ==
  /\ ~crashed
  /\ dl[d].alive
  /\ Len(events[d]) < MaxEvents
  /\ IF ~dl[d].m_started
     THEN UNCHANGED <<dl, events, tasks>>
     ELSE /\ send_state(d, TRACKER_STOPPED)
          /\ dl' = [dl EXCEPT ![d].m_started = FALSE, ![d].is_busy = TRUE]
          /\ UNCHANGED tasks
  /\ result' = [op |-> "stop", d |-> d, err |-> "none",
                cause |-> IF ~dl[d].m_started THEN "return" ELSE "none"]
  /\ UNCHANGED <<m_downloads, clock, cache, conns, avail, handshakes, crashed>>

\* Variant of stop() that also forgets the hash check.
stopForgetsCheck(d) ==
  /\ ~crashed
  /\ dl[d].alive
  /\ Len(events[d]) < MaxEvents
  /\ IF ~dl[d].m_started
     THEN UNCHANGED <<dl, events, tasks>>
     ELSE /\ send_state(d, TRACKER_STOPPED)
          /\ dl' = [dl EXCEPT ![d].m_started = FALSE, ![d].is_busy = TRUE,
                              ![d].m_checked = FALSE]
          /\ tasks' = removeService(tasks, d, CHOKE_CYCLE)
  /\ result' = [op |-> "stop", d |-> d, err |-> "none",
                cause |-> IF ~dl[d].m_started THEN "return" ELSE "none"]
  /\ UNCHANGED <<m_downloads, clock, cache, conns, avail, handshakes, crashed>>

\* Download::stop
stop(d) ==
  /\ ~crashed
  /\ dl[d].alive
  /\ Len(events[d]) < MaxEvents
  /\ IF ~dl[d].m_started
     THEN UNCHANGED <<dl, events, tasks>>
     ELSE /\ send_state(d, TRACKER_STOPPED)
          /\ dl' = [dl EXCEPT ![d].m_started = FALSE, ![d].is_busy = TRUE]
          /\ tasks' = removeService(tasks, d, CHOKE_CYCLE)
  /\ result' = [op |-> "stop", d |-> d, err |-> "none",
                cause |-> IF ~dl[d].m_started THEN "return" ELSE "none"]
  /\ UNCHANGED <<m_downloads, clock, cache, conns, avail, handshakes, crashed>>

\* Variant of isStopped() that does not ask the tracker.
isStoppedIgnoresTracker(d) == ~dl[d].m_started

\* Download::isStopped
isStopped(d) == ~dl[d].m_started /\ ~dl[d].is_busy

\* The tracker answers the outstanding request.
TrackerReply(d) ==
  /\ ~crashed
  /\ dl[d].alive
  /\ dl[d].is_busy
  /\ dl' = [dl EXCEPT ![d].is_busy = FALSE]
  /\ result' = [op |-> "tracker_reply", d |-> d, err |-> "none", cause |-> "none"]
  /\ UNCHANGED <<m_downloads, events, tasks, clock, cache, conns, avail,
                 handshakes, crashed>>

\* ------------------------------------------------------------ connections
Peers == [host : 1..NumHosts, port : 1..NumPorts, id : 0..NumPeerIds]

\* Peer::is_same_host: identity is the location, not the peer id.
is_same_host(a, b) == a.host = b.host /\ a.port = b.port

\* A PeerConnection as the choke cycle reads it.
NewConnection(peer, t) ==
  [peer |-> peer, choked |-> TRUE, interested |-> FALSE, down |-> 0, up |-> 0,
   lastChoked |-> t]

\* PeerConnection::choke(v): no effect when already in the requested state.
choke(c, v, t) ==
  IF c.choked = v THEN c ELSE [c EXCEPT !.choked = v, !.lastChoked = t]

\* DownloadState::canUnchoke: how many more connections may be unchoked
\* under the limit max.
canUnchoke(cs, max) == max - Cardinality({i \in 1..Len(cs) : ~cs[i].choked})

\* std::numeric_limits<float>::max(): above every score.
FloatMax == 16 * MaxRate + MaxRate + 1

RECURSIVE ChokeCandidateNoGrace(_, _, _, _, _)
\* Variant of the choke loop without the grace-period test.
ChokeCandidateNoGrace(cs, t, i, f, p1) ==
  IF i > Len(cs) THEN p1
  ELSE LET g == cs[i].down * 16 + cs[i].up IN
       IF ~cs[i].choked /\ g <= f
       THEN ChokeCandidateNoGrace(cs, t, i + 1, g, i)
       ELSE ChokeCandidateNoGrace(cs, t, i + 1, f, p1)

RECURSIVE ChokeCandidateStrict(_, _, _, _, _)
\* Variant of the choke loop that compares with < instead of <=.
ChokeCandidateStrict(cs, t, i, f, p1) ==
  IF i > Len(cs) THEN p1
  ELSE LET g == cs[i].down * 16 + cs[i].up IN
       IF ~cs[i].choked /\ cs[i].lastChoked + chokeGracePeriod < t /\ g < f
       THEN ChokeCandidateStrict(cs, t, i + 1, g, i)
       ELSE ChokeCandidateStrict(cs, t, i + 1, f, p1)

RECURSIVE ChokeCandidate(_, _, _, _, _)
\* The loop over the candidates for choking: f is the best score so far and
\* p1 the index of its connection (0 for NULL).
ChokeCandidate(cs, t, i, f, p1) ==
  IF i > Len(cs) THEN p1
  ELSE LET g == cs[i].down * 16 + cs[i].up IN
       IF ~cs[i].choked /\ cs[i].lastChoked + chokeGracePeriod < t /\ g <= f
       THEN ChokeCandidate(cs, t, i + 1, g, i)
       ELSE ChokeCandidate(cs, t, i + 1, f, p1)

RECURSIVE UnchokeCandidateByUp(_, _, _, _)
\* Variant of the unchoke loop that compares throttle().up().rate().
UnchokeCandidateByUp(cs, i, f, p2) ==
  IF i > Len(cs) THEN p2
  ELSE LET g == cs[i].up IN
       IF cs[i].choked /\ cs[i].interested /\ g >= f
       THEN UnchokeCandidateByUp(cs, i + 1, g, i)
       ELSE UnchokeCandidateByUp(cs, i + 1, f, p2)

RECURSIVE UnchokeCandidate(_, _, _, _)
\* The loop over the candidates for unchoking.
UnchokeCandidate(cs, i, f, p2) ==
  IF i > Len(cs) THEN p2
  ELSE LET g == cs[i].down IN
       IF cs[i].choked /\ cs[i].interested /\ g >= f
       THEN UnchokeCandidate(cs, i + 1, g, i)
       ELSE UnchokeCandidate(cs, i + 1, f, p2)

\* Variant of the choke cycle without the canUnchoke() > 0 return.
ChokeCycleAlways(cs, max, t) ==
  LET p1 == ChokeCandidate(cs, t, 1, FloatMax, 0)
      p2 == UnchokeCandidate(cs, 1, 0, 0)
  IN IF p1 = 0 \/ p2 = 0 THEN cs
     ELSE [cs EXCEPT ![p1] = choke(@, TRUE, t), ![p2] = choke(@, FALSE, t)]

\* Variant of the choke cycle that chokes p1 although p2 is NULL.
ChokeCycleOneSided(cs, max, t) ==
  LET s == canUnchoke(cs, max)
      p1 == ChokeCandidate(cs, t, 1, FloatMax, 0)
      p2 == UnchokeCandidate(cs, 1, 0, 0)
  IN IF s > 0 THEN cs
     ELSE IF p1 = 0 THEN cs
     ELSE IF p2 = 0 THEN [cs EXCEPT ![p1] = choke(@, TRUE, t)]
     ELSE [cs EXCEPT ![p1] = choke(@, TRUE, t), ![p2] = choke(@, FALSE, t)]

\* The choke cycle of service(CHOKE_CYCLE) after rescheduling: the
\* connections as the tick at cached time t leaves them.
RunChokeCycle(cs, max, t) ==
  LET s == canUnchoke(cs, max)
      p1 == ChokeCandidate(cs, t, 1, FloatMax, 0)
      p2 == UnchokeCandidate(cs, 1, 0, 0)
  IN IF s > 0 THEN cs
     ELSE IF p1 = 0 \/ p2 = 0 THEN cs
     ELSE [cs EXCEPT ![p1] = choke(@, TRUE, t), ![p2] = choke(@, FALSE, t)]

\* Variant of service(HASH_COMPLETED) that announces without looking at
\* m_started.
ServiceHashCompletedAnnounces(d, cc, bf) ==
  /\ ~crashed
  /\ dl[d].alive
  /\ dl[d].hashQueued
  /\ Len(events[d]) < MaxEvents
  /\ LET checked == [dl[d] EXCEPT !.m_checked = TRUE, !.hashQueued = FALSE,
                                  !.chunkCompleted = cc, !.bitfield = bf] IN
     IF cc = NumChunks /\ bf # 1..NumChunks
     THEN /\ dl' = [dl EXCEPT ![d] = checked]
          /\ UNCHANGED events
          /\ result' = [op |-> "service", d |-> d, err |-> "internal_error",
                        cause |-> HASH_COMPLETED]
     ELSE /\ send_state(d, TRACKER_STARTED)
          /\ dl' = [dl EXCEPT ![d] = [checked EXCEPT !.is_busy = TRUE]]
          /\ result' = [op |-> "service", d |-> d, err |-> "none",
                        cause |-> HASH_COMPLETED]
  /\ UNCHANGED <<m_downloads, tasks, clock, cache, conns, avail, handshakes, crashed>>

\* Variant of service(HASH_COMPLETED) that announces before it compares the
\* completed count with the bitfield.
ServiceHashCompletedLateCheck(d, cc, bf) ==
  /\ ~crashed
  /\ dl[d].alive
  /\ dl[d].hashQueued
  /\ Len(events[d]) < MaxEvents
  /\ LET checked == [dl[d] EXCEPT !.m_checked = TRUE, !.hashQueued = FALSE,
                                  !.chunkCompleted = cc, !.bitfield = bf] IN
     /\ IF dl[d].m_started
          THEN /\ send_state(d, TRACKER_STARTED)
               /\ dl' = [dl EXCEPT ![d] = [checked EXCEPT !.is_busy = TRUE]]
          ELSE /\ dl' = [dl EXCEPT ![d] = checked]
               /\ UNCHANGED events
     /\ result' = [op |-> "service", d |-> d,
                   err |-> IF cc = NumChunks /\ bf # 1..NumChunks
                           THEN "internal_error" ELSE "none",
                   cause |-> HASH_COMPLETED]
  /\ UNCHANGED <<m_downloads, tasks, clock, cache, conns, avail, handshakes, crashed>>

\* ------------------------------------------------------------ service()
\* service(HASH_COMPLETED), called once by the file check the constructor
\* queued; cc and bf are the completed-chunk count and the bitfield the
\* check left.
ServiceHashCompleted(d, cc, bf) ==
  /\ ~crashed
  /\ dl[d].alive
  /\ dl[d].hashQueued
  /\ Len(events[d]) < MaxEvents
  /\ LET checked == [dl[d] EXCEPT !.m_checked = TRUE, !.hashQueued = FALSE,
                                  !.chunkCompleted = cc, !.bitfield = bf] IN
     IF cc = NumChunks /\ bf # 1..NumChunks
     THEN /\ dl' = [dl EXCEPT ![d] = checked]
          /\ UNCHANGED events
          /\ result' = [op |-> "service", d |-> d, err |-> "internal_error",
                        cause |-> HASH_COMPLETED]
     ELSE /\ IF dl[d].m_started
               THEN /\ send_state(d, TRACKER_STARTED)
                    /\ dl' = [dl EXCEPT ![d] = [checked EXCEPT !.is_busy = TRUE]]
               ELSE /\ dl' = [dl EXCEPT ![d] = checked]
                    /\ UNCHANGED events
          /\ result' = [op |-> "service", d |-> d, err |-> "none",
                        cause |-> HASH_COMPLETED]
  /\ UNCHANGED <<m_downloads, tasks, clock, cache, conns, avail, handshakes, crashed>>

\* Variant of service(CHOKE_CYCLE) that re-arms the cycle only after the
\* canUnchoke() test.
ServiceChokeCycleLateInsert(d) ==
  /\ ~crashed
  /\ dl[d].alive
  /\ tasks # <<>>
  /\ Head(tasks).time <= cache
  /\ Head(tasks).d = d
  /\ Head(tasks).arg = CHOKE_CYCLE
  /\ tasks' = IF canUnchoke(conns[d], dl[d].maxUploads) > 0
              THEN Tail(tasks)
              ELSE insertService(Tail(tasks), cache + chokeCycle, d, CHOKE_CYCLE)
  /\ conns' = [conns EXCEPT ![d] = RunChokeCycle(@, dl[d].maxUploads, cache)]
  /\ result' = [op |-> "service", d |-> d, err |-> "none", cause |-> CHOKE_CYCLE]
  /\ UNCHANGED <<m_downloads, dl, events, clock, cache, avail, handshakes, crashed>>

\* service(CHOKE_CYCLE): the scheduler takes the first task of the queue,
\* which is due, and calls service() with its argument.
ServiceChokeCycle(d) ==
  /\ ~crashed
  /\ dl[d].alive
  /\ tasks # <<>>
  /\ Head(tasks).time <= cache
  /\ Head(tasks).d = d
  /\ Head(tasks).arg = CHOKE_CYCLE
  /\ tasks' = insertService(Tail(tasks), cache + chokeCycle, d, CHOKE_CYCLE)
  /\ conns' = [conns EXCEPT ![d] = RunChokeCycle(@, dl[d].maxUploads, cache)]
  /\ result' = [op |-> "service", d |-> d, err |-> "none", cause |-> CHOKE_CYCLE]
  /\ UNCHANGED <<m_downloads, dl, events, clock, cache, avail, handshakes, crashed>>

\* service() with any other argument.
ServiceBadArgument(d) ==
  /\ ~crashed
  /\ dl[d].alive
  /\ result' = [op |-> "service", d |-> d, err |-> "internal_error",
                cause |-> "bad argument"]
  /\ UNCHANGED <<m_downloads, dl, events, tasks, clock, cache, conns, avail,
                 handshakes, crashed>>

\* ------------------------------------------------------------ the timer
\* Time passes.
Tick ==
  /\ ~crashed
  /\ clock < MaxTime
  /\ clock' = clock + 1
  /\ result' = [op |-> "tick", d |-> 0, err |-> "none", cause |-> "none"]
  /\ UNCHANGED <<m_downloads, dl, events, tasks, cache, conns, avail,
                 handshakes, crashed>>

\* Timer::update(): a scheduler round begins and caches the current time.
TimerUpdate ==
  /\ ~crashed
  /\ cache < clock
  /\ cache' = clock
  /\ result' = [op |-> "update", d |-> 0, err |-> "none", cause |-> "none"]
  /\ UNCHANGED <<m_downloads, dl, events, tasks, clock, conns, avail,
                 handshakes, crashed>>

\* ------------------------------------------------------------ add_peers
\* std::find_if(..., is_same_host) != end(): some peer of the sequence ps is
\* the same host as p.
Known(ps, p) == \E i \in 1..Len(ps) : is_same_host(ps[i], p)

\* The peers of a sequence of connections or handshakes.
PeersOf(s) == [i \in 1..Len(s) |-> s[i].peer]

RECURSIVE AdmitLoopNoAvailCheck(_, _, _, _, _)
\* Variant of the loop that does not search available_peers.
AdmitLoopNoAvailCheck(p, i, cs, hs, av) ==
  IF i > Len(p) THEN av
  ELSE IF \/ Known(PeersOf(cs), p[i])
          \/ Known(PeersOf(hs), p[i])
       THEN AdmitLoopNoAvailCheck(p, i + 1, cs, hs, av)
       ELSE AdmitLoopNoAvailCheck(p, i + 1, cs, hs, Append(av, p[i]))

RECURSIVE AdmitLoopFront(_, _, _, _, _)
\* Variant of the loop that uses push_front.
AdmitLoopFront(p, i, cs, hs, av) ==
  IF i > Len(p) THEN av
  ELSE IF \/ Known(PeersOf(cs), p[i])
          \/ Known(PeersOf(hs), p[i])
          \/ Known(av, p[i])
       THEN AdmitLoopFront(p, i + 1, cs, hs, av)
       ELSE AdmitLoopFront(p, i + 1, cs, hs, <<p[i]>> \o av)

RECURSIVE AdmitLoop(_, _, _, _, _)
\* The loop of add_peers over the candidates p: the available pool it leaves.
AdmitLoop(p, i, cs, hs, av) ==
  IF i > Len(p) THEN av
  ELSE IF \/ Known(PeersOf(cs), p[i])
          \/ Known(PeersOf(hs), p[i])
          \/ Known(av, p[i])
       THEN AdmitLoop(p, i + 1, cs, hs, av)
       ELSE AdmitLoop(p, i + 1, cs, hs, Append(av, p[i]))

\* DownloadState::connect_peers taking k candidates: they leave the front of
\* the available pool and become handshakes.
connect_peers(d, av, hs, k) ==
  [avail |-> SubSeq(av, k + 1, Len(av)),
   handshakes |-> hs \o [i \in 1..k |-> [peer |-> av[i], d |-> d]]]

\* Download::add_peers
add_peers(d, p) ==
  /\ ~crashed
  /\ dl[d].alive
  /\ LET av == AdmitLoop(p, 1, conns[d], handshakes, avail[d]) IN
     \E k \in 0..Len(av) :
       LET o == connect_peers(d, av, handshakes, k) IN
       /\ avail' = [avail EXCEPT ![d] = o.avail]
       /\ handshakes' = o.handshakes
  /\ result' = [op |-> "add_peers", d |-> d, err |-> "none", cause |-> "none"]
  /\ UNCHANGED <<m_downloads, dl, events, tasks, clock, cache, conns, crashed>>

\* The connection layer on its own: connect_peers outside add_peers.
ConnectPeers(d) ==
  /\ ~crashed
  /\ dl[d].alive
  /\ \E k \in 1..Len(avail[d]) :
       LET o == connect_peers(d, avail[d], handshakes, k) IN
       /\ avail' = [avail EXCEPT ![d] = o.avail]
       /\ handshakes' = o.handshakes
  /\ result' = [op |-> "connect_peers", d |-> d, err |-> "none", cause |-> "none"]
  /\ UNCHANGED <<m_downloads, dl, events, tasks, clock, cache, conns, crashed>>

\* A handshake completes: its peer becomes a live connection of its session.
HandshakeDone(i) ==
  /\ ~crashed
  /\ i \in 1..Len(handshakes)
  /\ LET h == handshakes[i] IN
     /\ dl[h.d].alive
     /\ conns' = [conns EXCEPT ![h.d] = Append(@, NewConnection(h.peer, cache))]
     /\ result' = [op |-> "handshake_done", d |-> h.d, err |-> "none", cause |-> "none"]
  /\ handshakes' = RemoveAt(handshakes, i)
  /\ UNCHANGED <<m_downloads, dl, events, tasks, clock, cache, avail, crashed>>

\* A live connection is closed.
Disconnect(d, i) ==
  /\ ~crashed
  /\ dl[d].alive
  /\ i \in 1..Len(conns[d])
  /\ conns' = [conns EXCEPT ![d] = RemoveAt(@, i)]
  /\ result' = [op |-> "disconnect", d |-> d, err |-> "none", cause |-> "none"]
  /\ UNCHANGED <<m_downloads, dl, events, tasks, clock, cache, avail, handshakes,
                 crashed>>

\* ------------------------------------------------------------ specifications
PeerLists == UNION {[1..n -> Peers] : n \in 0..MaxPeers}

EmptyState ==
  /\ m_downloads = <<>>
  /\ dl = [d \in SessionIds |-> NoDownload]
  /\ events = [d \in SessionIds |-> <<>>]
  /\ tasks = <<>>
  /\ clock = 0
  /\ cache = 0
  /\ conns = [d \in SessionIds |-> <<>>]
  /\ avail = [d \in SessionIds |-> <<>>]
  /\ handshakes = <<>>
  /\ result = NoResult
  /\ crashed = FALSE

\* The lifecycle of one session: construction, start and stop, the file
\* check's completion, the choke-cycle timer and the tracker's answers.
Init == EmptyState

Construct == \E b \in Bencodes : Download(1, b)
Destroy == DownloadDtor(1)
Start == start(1)
Stop == stop(1)
HashCompleted ==
  \E cc \in 0..NumChunks, bf \in SUBSET (1..NumChunks) :
    ServiceHashCompleted(1, cc, bf)
ChokeCycleTick == ServiceChokeCycle(1)
BadArgument == ServiceBadArgument(1)
Reply == TrackerReply(1)

Next ==
  \/ Construct
  \/ Destroy
  \/ Start
  \/ Stop
  \/ HashCompleted
  \/ ChokeCycleTick
  \/ BadArgument
  \/ Reply
  \/ Tick
  \/ TimerUpdate

Spec == Init /\ [][Next]_vars

\* The registry: several sessions are constructed, registered, started,
\* checked and destroyed.
RegConstruct == \E d \in SessionIds, b \in Bencodes : Download(d, b)
RegRegister == \E d \in SessionIds : Register(d)
RegDestroy == \E d \in SessionIds : DownloadDtor(d)
RegStart == \E d \in SessionIds : start(d)
RegHashCompleted ==
  \E d \in SessionIds, cc \in 0..NumChunks, bf \in SUBSET (1..NumChunks) :
    ServiceHashCompleted(d, cc, bf)

NextRegistry ==
  \/ RegConstruct
  \/ RegRegister
  \/ RegDestroy
  \/ RegStart
  \/ RegHashCompleted

SpecRegistry == Init /\ [][NextRegistry]_vars

\* A session as the constructor leaves it for the info dictionary c.
Constructed(c) ==
  [NoDownload EXCEPT !.alive = TRUE, !.hash = c, !.filesOpen = TRUE,
                     !.m_tracker = TRUE, !.hashQueued = TRUE,
                     !.maxUploads = MaxUploads]

\* Peer admission: session 1 exists; the tracker delivers candidate lists
\* and the connection layer moves candidates on.
InitPeers ==
  /\ m_downloads = <<>>
  /\ dl = [d \in SessionIds |-> IF d = 1 THEN Constructed(1) ELSE NoDownload]
  /\ events = [d \in SessionIds |-> <<>>]
  /\ tasks = <<>>
  /\ clock = 0
  /\ cache = 0
  /\ conns = [d \in SessionIds |-> <<>>]
  /\ avail = [d \in SessionIds |-> <<>>]
  /\ handshakes = <<>>
  /\ result = NoResult
  /\ crashed = FALSE

AddPeers == \E p \in PeerLists : add_peers(1, p)
Connect == ConnectPeers(1)
Handshaken == \E i \in 1..Len(handshakes) : HandshakeDone(i)
Disconnected == \E i \in 1..Len(conns[1]) : Disconnect(1, i)

NextPeers ==
  \/ AddPeers
  \/ Connect
  \/ Handshaken
  \/ Disconnected

SpecPeers == InitPeers /\ [][NextPeers]_vars

\* The choke cycle: session 1 was checked and then started at time 0, one
\* time unit has passed, its upload limit is any setting from 1 and its
\* connections are in any state.
ChokeConnections ==
  [peer : {[host |-> 1, port |-> 1, id |-> 0]}, choked : BOOLEAN,
   interested : BOOLEAN, down : 0..MaxRate, up : 0..MaxRate, lastChoked : 0..1]

InitChoke ==
  /\ m_downloads = <<>>
  /\ \E max \in 1..MaxUploads :
       dl = [d \in SessionIds |->
               IF d = 1 THEN [Constructed(1) EXCEPT !.m_checked = TRUE,
                                !.hashQueued = FALSE, !.m_started = TRUE,
                                !.is_busy = TRUE, !.maxUploads = max]
               ELSE NoDownload]
  /\ events = [d \in SessionIds |-> IF d = 1 THEN <<TRACKER_STARTED>> ELSE <<>>]
  /\ tasks = <<[time |-> chokeCycle * 2, d |-> 1, arg |-> CHOKE_CYCLE]>>
  /\ clock = 1
  /\ cache = 1
  /\ \E cs \in [1..NumConns -> ChokeConnections] :
       conns = [d \in SessionIds |-> IF d = 1 THEN cs ELSE <<>>]
  /\ avail = [d \in SessionIds |-> <<>>]
  /\ handshakes = <<>>
  /\ result = NoResult
  /\ crashed = FALSE

NextChoke ==
  \/ ChokeCycleTick
  \/ Tick
  \/ TimerUpdate

SpecChoke == InitChoke /\ [][NextChoke]_vars

\* ------------------------------------------------------------ properties
\* The step appends exactly one "started" to the events of d.
SendsStarted(d) == events'[d] = Append(events[d], TRACKER_STARTED)

\* The step takes d into (m_checked, m_started) from outside it.
EntersCheckedStarted(d) ==
  /\ ~(dl[d].m_checked /\ dl[d].m_started)
  /\ dl'[d].m_checked /\ dl'[d].m_started

\* C1 as stated: the first step that takes a session into (verified, active)
\* sends the tracker "started" event, whichever of start() and the
\* verification-complete dispatch made it.
C1_StartedOnFirstEntry ==
  [][\A d \in SessionIds :
       (/\ dl[d].alive /\ dl'[d].alive
        /\ EntersCheckedStarted(d)
        /\ TRACKER_STARTED \notin Range(events[d]))
       => SendsStarted(d)]_vars

\* C1 amended: a step sends "started" exactly when it takes the session into
\* (verified, active) and the operation making it completes without an error;
\* a verification-complete dispatch that fails sends none although it has set
\* verified, and "started" is never sent while verified is false.
C1_StartedOnEntryUnlessFailed ==
  [][\A d \in SessionIds :
       (dl[d].alive /\ dl'[d].alive)
       => /\ SendsStarted(d) <=> (EntersCheckedStarted(d) /\ result'.err = "none")
          /\ TRACKER_STARTED \in Range(events'[d]) => dl'[d].m_checked
          /\ (~dl[d].m_checked /\ result'.op = "start" /\ result'.d = d)
             => events'[d] = events[d]]_vars

\* C1 witness: start() came first, and the later verification-complete
\* dispatch sent the deferred "started".
C1_Witness ==
  /\ result.op = "service" /\ result.cause = HASH_COMPLETED /\ result.err = "none"
  /\ dl[1].m_started
  /\ events[1] = <<TRACKER_STARTED>>

\* C2: start() always leaves the session started and stop() leaves it
\* stopped; a start() of a started session and a stop() of a stopped session
\* change neither the session, nor the events sent, nor the scheduled tasks,
\* so a second call in a row leaves what the first call left.
C2_StartStopIdempotent ==
  [][\A d \in SessionIds :
       /\ (result'.op = "start" /\ result'.d = d)
          => /\ dl'[d].m_started
             /\ dl[d].m_started => UNCHANGED <<dl, events, tasks, conns, avail>>
       /\ (result'.op = "stop" /\ result'.d = d)
          => /\ ~dl'[d].m_started
             /\ ~dl[d].m_started => UNCHANGED <<dl, events, tasks, conns, avail>>]_vars

\* C2 witness: start() was called on a session that was already started and
\* verified, and took the early return.
C2_Witness ==
  /\ result.op = "start" /\ result.cause = "return"
  /\ dl[1].m_started /\ dl[1].m_checked
  /\ Len(tasks) = 1

\* A bencode the constructor can build a session from.
ValidMetadata(b) == b.info = "ok" /\ b.announce = "ok"

\* C3 as stated: a session just constructed is unverified, inactive and
\* returned by the lookup of its content id.
C3_ConstructedIsRegistered ==
  (result.op = "Download" /\ result.err = "none")
  => /\ ~dl[result.d].m_checked
     /\ ~dl[result.d].m_started
     /\ getDownload(dl[result.d].hash) = result.d

\* C4 as stated: the registry never holds two sessions with one content id,
\* and no construction succeeds for a content id that a registered session
\* already has.
C4_OneSessionPerContentId ==
  /\ \A i, j \in 1..Len(m_downloads) :
       i # j => dl[m_downloads[i]].hash # dl[m_downloads[j]].hash
  /\ ~(/\ result.op = "Download" /\ result.err = "none"
       /\ \E e \in Range(m_downloads) :
            e # result.d /\ dl[e].hash = dl[result.d].hash)

\* C5: constructing from malformed metadata fails with the error the
\* handler raises for a bad torrent file (or with the storage's own error when
\* the files could not be opened either); the registry, the task queue and
\* the other sessions are as before, no session exists in the slot, and the
\* storage and the tracker handle of the attempt are released.
C5_MalformedMetadataFailsCleanly ==
  [][\A d \in SessionIds, b \in Bencodes :
       (~ValidMetadata(b) /\ Download(d, b))
       => /\ result'.err = IF b.info = "ok" /\ ~b.openOk THEN "local_error"
                           ELSE "local_error: Bad torrent file"
          /\ m_downloads' = m_downloads
          /\ tasks' = tasks
          /\ ~dl'[d].alive /\ ~dl'[d].hashQueued
          /\ ~dl'[d].filesOpen /\ ~dl'[d].m_tracker
          /\ \A e \in SessionIds \ {d} : dl'[e] = dl[e]]_vars

\* C5 witness: a construction failed on a bencode_error while another
\* session was registered.
C5_Witness ==
  /\ result.op = "Download" /\ result.cause = "bencode_error"
  /\ result.err = "local_error: Bad torrent file"
  /\ m_downloads # <<>>
  /\ ~dl[result.d].alive

\* C6 as stated: destroying a session, registered or not, leaves its content
\* id without a registered session and every other registered session
\* registered and returned by lookup.
C6_DestroyUnregistersExactlyThat ==
  [][\A d \in SessionIds :
       (dl[d].alive /\ ~dl'[d].alive)
       => /\ ~crashed'
          /\ FindDownload(m_downloads', dl', dl[d].hash) = 0
          /\ \A e \in Range(m_downloads) \ {d} :
               FindDownload(m_downloads', dl', dl[e].hash) = e]_vars

\* ---- peer admission
PoolPeers(d) ==
  PeersOf(conns[d]) \o PeersOf(handshakes) \o avail[d]

\* The candidates of p that are new: not the same host as an entry of the
\* three pools nor as an earlier candidate of p, in the order of p.
Survivors(d, p) ==
  LET New(i) == /\ \A j \in 1..Len(PoolPeers(d)) : ~is_same_host(PoolPeers(d)[j], p[i])
                /\ \A j \in 1..(i - 1) : ~is_same_host(p[j], p[i])
      idx == SelectSeq([i \in 1..Len(p) |-> i], New)
  IN [k \in 1..Len(idx) |-> p[idx[k]]]

\* C7: add_peers leaves, in front of the candidates connect_peers took from
\* the head at the end of the call, the old available pool in its old order
\* followed by the new candidates in call order, and nothing else: no
\* candidate that is the same host as an entry of a pool or as an earlier
\* candidate is added.
C7_AdmitAppendsNewCandidates ==
  [][result'.op = "add_peers" =>
     \A p \in PeerLists :
       add_peers(1, p)
       => LET taken == SubSeq(handshakes', Len(handshakes) + 1, Len(handshakes'))
          IN /\ SubSeq(handshakes', 1, Len(handshakes)) = handshakes
             /\ PeersOf(taken) \o avail'[1]
                  = avail[1] \o Survivors(1, p)]_vars

\* C7 witness: add_peers ran and left a candidate in the available pool
\* while a connection and a handshake exist.
C7_Witness ==
  /\ result.op = "add_peers"
  /\ Len(avail[1]) = 1 /\ Len(conns[1]) = 1 /\ Len(handshakes) = 1

\* No two entries of the sequence s, read through Peer, are the same host.
DistinctHosts(s) ==
  \A i, j \in 1..Len(s) : i # j => ~is_same_host(s[i], s[j])

\* C8: the available pool, the live connections and the handshakes never
\* hold the same host twice, within a pool or across pools.
C8_PoolsDisjoint == \A d \in SessionIds : DistinctHosts(PoolPeers(d))

\* C8 witness: all three pools are in use after an add_peers.
C8_Witness ==
  /\ result.op = "add_peers"
  /\ Len(avail[1]) >= 1 /\ Len(conns[1]) >= 1 /\ Len(handshakes) >= 1
  /\ Len(PoolPeers(1)) = NumHosts * NumPorts

\* ---- choke cycle
\* The step is a service(CHOKE_CYCLE) of session d.
ChokeCycleStep(d) ==
  result'.op = "service" /\ result'.cause = CHOKE_CYCLE /\ result'.d = d

\* The connections of d whose choke state the step changes.
ChokeChanged(d) ==
  {i \in 1..Len(conns[d]) : conns'[d][i].choked # conns[d][i].choked}

Unchoked(cs) == {i \in 1..Len(cs) : ~cs[i].choked}

\* C9: a choke cycle that finds canUnchoke() > 0 changes no connection.
C9_NoActionWithSlack ==
  [][\A d \in SessionIds :
       (ChokeCycleStep(d) /\ canUnchoke(conns[d], dl[d].maxUploads) > 0)
       => conns'[d] = conns[d]]_vars

\* C9 witness: a choke cycle ran with canUnchoke() > 0 although a connection
\* to choke and a connection to unchoke were both there.
C9_Witness ==
  /\ result.op = "service" /\ result.cause = CHOKE_CYCLE
  /\ canUnchoke(conns[1], dl[1].maxUploads) > 0
  /\ ChokeCandidate(conns[1], cache, 1, FloatMax, 0) # 0
  /\ UnchokeCandidate(conns[1], 1, 0, 0) # 0

\* C10: a choke cycle changes the choke state of no connection, or of exactly
\* two: one that was unchoked and is choked, one that was choked and is
\* unchoked; the number of unchoked connections is kept, and nothing else of
\* a connection but its last-choke time changes.
C10_SwapOrNothing ==
  [][\A d \in SessionIds :
       ChokeCycleStep(d)
       => /\ Len(conns'[d]) = Len(conns[d])
          /\ \/ ChokeChanged(d) = {}
             \/ \E a, b \in 1..Len(conns[d]) :
                  /\ a # b
                  /\ ChokeChanged(d) = {a, b}
                  /\ ~conns[d][a].choked /\ conns'[d][a].choked
                  /\ conns[d][b].choked /\ ~conns'[d][b].choked
          /\ Cardinality(Unchoked(conns'[d])) = Cardinality(Unchoked(conns[d]))
          /\ \A i \in 1..Len(conns[d]) :
               /\ [conns'[d][i] EXCEPT !.choked = TRUE, !.lastChoked = 0]
                    = [conns[d][i] EXCEPT !.choked = TRUE, !.lastChoked = 0]
               /\ i \notin ChokeChanged(d) => conns'[d][i] = conns[d][i]]_vars

\* C10 witness: a choke cycle has just choked one connection and unchoked
\* another.
C10_Witness ==
  /\ result.op = "service" /\ result.cause = CHOKE_CYCLE
  /\ \E a, b \in 1..Len(conns[1]) :
       /\ conns[1][a].choked /\ conns[1][a].lastChoked = cache
       /\ ~conns[1][b].choked /\ conns[1][b].lastChoked = cache
  /\ cache >= chokeCycle * 2

\* The choke cycle over a session's life: session 1 exists, is checked and
\* not started, and has connections; start() and stop() arm and disarm the
\* cycle.
CycleConnections == {c \in ChokeConnections : c.up = 0 /\ c.lastChoked = 0}

InitCycle ==
  /\ m_downloads = <<>>
  /\ \E max \in 1..MaxUploads :
       dl = [d \in SessionIds |->
               IF d = 1 THEN [Constructed(1) EXCEPT !.m_checked = TRUE,
                                !.hashQueued = FALSE, !.maxUploads = max]
               ELSE NoDownload]
  /\ events = [d \in SessionIds |-> <<>>]
  /\ tasks = <<>>
  /\ clock = 0
  /\ cache = 0
  /\ \E cs \in [1..NumConns -> CycleConnections] :
       conns = [d \in SessionIds |-> IF d = 1 THEN cs ELSE <<>>]
  /\ avail = [d \in SessionIds |-> <<>>]
  /\ handshakes = <<>>
  /\ result = NoResult
  /\ crashed = FALSE

NextCycle ==
  \/ Start
  \/ Stop
  \/ ChokeCycleTick
  \/ Reply
  \/ Tick
  \/ TimerUpdate

SpecCycle == InitCycle /\ [][NextCycle]_vars

\* One session from construction on, never destroyed, whose tracker answers
\* every request it is sent.
InitIdle ==
  /\ m_downloads = <<>>
  /\ dl = [d \in SessionIds |-> IF d = 1 THEN Constructed(1) ELSE NoDownload]
  /\ events = [d \in SessionIds |-> <<>>]
  /\ tasks = <<>>
  /\ clock = 0
  /\ cache = 0
  /\ conns = [d \in SessionIds |-> <<>>]
  /\ avail = [d \in SessionIds |-> <<>>]
  /\ handshakes = <<>>
  /\ result = NoResult
  /\ crashed = FALSE

NextIdle ==
  \/ Start
  \/ Stop
  \/ HashCompleted
  \/ ChokeCycleTick
  \/ Reply
  \/ Tick
  \/ TimerUpdate

SpecIdle == InitIdle /\ [][NextIdle]_vars /\ WF_vars(Reply)

\* ---- the candidates of the choke cycle
\* The unchoked connections whose last choke change is older than the grace
\* period at time t.
ChokeEligible(cs, t) ==
  {i \in 1..Len(cs) : ~cs[i].choked /\ cs[i].lastChoked + chokeGracePeriod < t}

\* The choked connections that are interested.
UnchokeEligible(cs) == {i \in 1..Len(cs) : cs[i].choked /\ cs[i].interested}

Score(c) == 16 * c.down + c.up

\* The connections of E with the lowest score.
LowestScore(cs, E) == {i \in E : \A j \in E : Score(cs[i]) <= Score(cs[j])}

MinOf(I) == CHOOSE i \in I : \A j \in I : i <= j
MaxOf(I) == CHOOSE i \in I : \A j \in I : i >= j

\* The connections of d the step chokes, and those it unchokes.
NewlyChoked(d) ==
  {i \in 1..Len(conns[d]) : ~conns[d][i].choked /\ conns'[d][i].choked}
NewlyUnchoked(d) ==
  {i \in 1..Len(conns[d]) : conns[d][i].choked /\ ~conns'[d][i].choked}

\* A choke cycle of d that finds canUnchoke() <= 0 and a candidate of each kind.
ChokeCycleSwaps(d) ==
  /\ ChokeCycleStep(d)
  /\ canUnchoke(conns[d], dl[d].maxUploads) <= 0
  /\ ChokeEligible(conns[d], cache) # {}
  /\ UnchokeEligible(conns[d]) # {}

\* C11 as stated: with canUnchoke() <= 0 the connection choked is the one of
\* lowest score 16 x download rate + upload rate among the unchoked
\* connections past the grace period, the first of them in iteration order
\* when several share the lowest score.
C11_ChokesFirstLowestScore ==
  [][\A d \in SessionIds :
       ChokeCycleSwaps(d)
       => NewlyChoked(d)
            = {MinOf(LowestScore(conns[d], ChokeEligible(conns[d], cache)))}]_vars

\* C11 amended: as above, but when several eligible connections share the
\* lowest score the last of them in iteration order is chosen; and a cycle
\* that finds canUnchoke() > 0 or lacks a candidate of either kind chokes
\* no connection.
C11_ChokesLastLowestScore ==
  [][\A d \in SessionIds :
       ChokeCycleStep(d)
       => IF ChokeCycleSwaps(d)
          THEN NewlyChoked(d)
                 = {MaxOf(LowestScore(conns[d], ChokeEligible(conns[d], cache)))}
          ELSE NewlyChoked(d) = {}]_vars

\* C11 witness: a cycle has just choked connection a although an earlier
\* connection b, still unchoked and past the grace period, has the same score.
C11_Witness ==
  /\ result.op = "service" /\ result.cause = CHOKE_CYCLE
  /\ cache >= chokeCycle * 2
  /\ \E a, b \in 1..Len(conns[1]) :
       /\ b < a
       /\ conns[1][a].choked /\ conns[1][a].lastChoked = cache
       /\ ~conns[1][b].choked /\ conns[1][b].lastChoked + chokeGracePeriod < cache
       /\ Score(conns[1][a]) = Score(conns[1][b])

\* The connections of U with the highest upload rate, and with the highest
\* download rate.
HighestUp(cs, U) == {i \in U : \A j \in U : cs[i].up >= cs[j].up}
HighestDown(cs, U) == {i \in U : \A j \in U : cs[i].down >= cs[j].down}

\* C12 as stated: with canUnchoke() <= 0 the connection unchoked is the one
\* of highest upload rate among the choked interested connections, whatever
\* their last choke time, the first of them in iteration order on a tie.
C12_UnchokesFirstHighestUpload ==
  [][\A d \in SessionIds :
       ChokeCycleSwaps(d)
       => NewlyUnchoked(d)
            = {MinOf(HighestUp(conns[d], UnchokeEligible(conns[d])))}]_vars

\* C12 amended: the connection unchoked is the one of highest download rate
\* (throttle().down().rate()) among the choked interested connections,
\* whatever their last choke time, the last of them in iteration order on a
\* tie; a cycle that finds canUnchoke() > 0 or lacks a candidate of either
\* kind unchokes no connection.
C12_UnchokesLastHighestDownload ==
  [][\A d \in SessionIds :
       ChokeCycleStep(d)
       => IF ChokeCycleSwaps(d)
          THEN NewlyUnchoked(d)
                 = {MaxOf(HighestDown(conns[d], UnchokeEligible(conns[d])))}
          ELSE NewlyUnchoked(d) = {}]_vars

\* C12 witness: a cycle has just unchoked connection b although another
\* connection c, still choked and interested, has the higher upload rate and
\* a lower download rate.
C12_Witness ==
  /\ result.op = "service" /\ result.cause = CHOKE_CYCLE
  /\ cache >= chokeCycle * 2
  /\ \E b, c \in 1..Len(conns[1]) :
       /\ ~conns[1][b].choked /\ conns[1][b].lastChoked = cache
       /\ conns[1][c].choked /\ conns[1][c].interested
       /\ conns[1][c].up > conns[1][b].up
       /\ conns[1][c].down < conns[1][b].down

\* ---- isStopped(), the hash check
\* C13: a constructed session is idle (isStopped()) exactly when it is not
\* active and its tracker has no outstanding request.
C13_IdleIffInactiveAndNoRequest ==
  \A d \in SessionIds :
    dl[d].alive => (isStopped(d) <=> (~dl[d].m_started /\ ~dl[d].is_busy))

\* C13 witness: stop() has just sent its request; the session is inactive
\* but, the request being outstanding, not idle.
C13_Witness ==
  /\ result.op = "stop" /\ result.cause = "none"
  /\ dl[1].alive /\ ~dl[1].m_started /\ dl[1].is_busy
  /\ ~isStopped(1)

\* The step is a dispatch of HASH_COMPLETED to session d.
HashCompletedStep(d) ==
  result'.op = "service" /\ result'.cause = HASH_COMPLETED /\ result'.d = d

\* The completed count equals the chunk total while the bitfield is not
\* fully set.
Inconsistent(s) == s.chunkCompleted = NumChunks /\ s.bitfield # 1..NumChunks

C15_VerifiedSetOnceByHashCheck ==
  [][\A d \in SessionIds :
       dl[d].alive /\ dl'[d].alive /\ dl'[d].m_checked # dl[d].m_checked
       => ~dl[d].m_checked /\ dl'[d].m_checked /\ HashCompletedStep(d)]_vars

\* C15 witness: a verified active session has been stopped and is still
\* verified.
C15_Witness ==
  /\ result.op = "stop" /\ result.cause = "none"
  /\ dl[1].alive /\ dl[1].m_checked /\ ~dl[1].m_started
  /\ events[1] = <<TRACKER_STARTED, TRACKER_STOPPED>>

\* ---- the schedule of the choke cycle
\* The number of CHOKE_CYCLE tasks of d in q that are due at time t, and the
\* number at any time.
CycleAt(q, d, t) ==
  Cardinality({i \in 1..Len(q) :
                 q[i].d = d /\ q[i].arg = CHOKE_CYCLE /\ q[i].time = t})
Pending(q, d) ==
  Cardinality({i \in 1..Len(q) : q[i].d = d /\ q[i].arg = CHOKE_CYCLE})

TaskTimes == 0..(MaxTime + chokeCycle * 2)

\* The step is a start() of d that found it not started.
StartActs(d) ==
  result'.op = "start" /\ result'.d = d /\ result'.cause = "none"

\* C16: start() on a session that is not started adds one choke cycle due at
\* Timer::current() + 2 x chokeCycle and nothing else; every dispatch of the
\* choke cycle, whatever path the algorithm then takes, replaces the
\* dispatched task by exactly one task due at Timer::cache() + chokeCycle.
C16_CycleScheduledOnStartAndDispatch ==
  [][\A d \in SessionIds :
       /\ StartActs(d)
          => \A t \in TaskTimes :
               CycleAt(tasks', d, t)
                 = CycleAt(tasks, d, t)
                     + (IF t = clock + chokeCycle * 2 THEN 1 ELSE 0)
       /\ ChokeCycleStep(d)
          => \A t \in TaskTimes :
               CycleAt(tasks', d, t)
                 = CycleAt(Tail(tasks), d, t)
                     + (IF t = cache + chokeCycle THEN 1 ELSE 0)]_vars

\* C16 witness: a cycle of a started session has returned at the
\* canUnchoke() > 0 test with connections present, and the next cycle is
\* pending one interval after the tick.
C16_Witness ==
  /\ result.op = "service" /\ result.cause = CHOKE_CYCLE
  /\ dl[1].m_started /\ events[1] # <<>>
  /\ canUnchoke(conns[1], dl[1].maxUploads) > 0
  /\ Unchoked(conns[1]) # {}
  /\ CycleAt(tasks, 1, cache + chokeCycle) = 1

\* C17: between operations a constructed session has exactly one choke
\* cycle pending when it is started and none when it is not; a choke cycle
\* is dispatched only to a started session, and after each dispatch the
\* next one is pending.
C17_CyclePendingIffStarted ==
  /\ \A d \in SessionIds :
       dl[d].alive => Pending(tasks, d) = (IF dl[d].m_started THEN 1 ELSE 0)
  /\ result.op = "service" /\ result.cause = CHOKE_CYCLE
       => dl[result.d].m_started /\ Pending(tasks, result.d) = 1

\* C17 witness: a started session has been stopped at a time by which its
\* first cycles were due; no cycle is pending.
C17_Witness ==
  /\ result.op = "stop" /\ result.cause = "none"
  /\ dl[1].alive /\ ~dl[1].m_started
  /\ Pending(tasks, 1) = 0
  /\ cache >= chokeCycle * 3

\* C18: a cycle at tick time Timer::cache() never chokes a connection whose
\* last choke change was at t with cache <= t + chokeGracePeriod; the grace
\* period does not apply to unchoking: a cycle with canUnchoke() <= 0 and a
\* choke candidate unchokes a choked interested connection even when every
\* such connection changed within the grace period.
C18_GraceProtectsFromChokeOnly ==
  [][\A d \in SessionIds :
       ChokeCycleStep(d)
       => /\ \A i \in NewlyChoked(d) :
               conns[d][i].lastChoked + chokeGracePeriod < cache
          /\ ChokeCycleSwaps(d)
               /\ (\A i \in UnchokeEligible(conns[d]) :
                     cache <= conns[d][i].lastChoked + chokeGracePeriod)
             => NewlyUnchoked(d) # {}]_vars

\* C18 witness: a cycle has just choked connection b and unchoked another,
\* while connection a, unchoked with a lower score, changed within the grace
\* period and stays unchoked.
C18_Witness ==
  /\ result.op = "service" /\ result.cause = CHOKE_CYCLE
  /\ \E a, b, c \in 1..Len(conns[1]) :
       /\ ~conns[1][a].choked
       /\ conns[1][a].lastChoked < cache
       /\ cache <= conns[1][a].lastChoked + chokeGracePeriod
       /\ conns[1][b].choked /\ conns[1][b].lastChoked = cache
       /\ Score(conns[1][a]) < Score(conns[1][b])
       /\ ~conns[1][c].choked /\ conns[1][c].lastChoked = cache

\* ---- the events sent to the tracker
\* C19 as stated: the events of a session alternate strictly, beginning with
\* "started".
C19_StartedStoppedAlternate ==
  \A d \in SessionIds :
    \A i \in 1..Len(events[d]) :
      events[d][i] = (IF i % 2 = 1 THEN TRACKER_STARTED ELSE TRACKER_STOPPED)

\* C19 amended: from the first "started" on, the events of a session
\* alternate strictly; before it there may be any number of "stopped", one
\* for each stop() of a session that was started while no "started" had
\* been sent.
C19_AlternateFromFirstStarted ==
  \A d \in SessionIds :
    \A i \in 1..Len(events[d]) :
      events[d][i] = TRACKER_STARTED
      => \A k \in i..Len(events[d]) :
           events[d][k] = (IF (k - i) % 2 = 0 THEN TRACKER_STARTED
                           ELSE TRACKER_STOPPED)

\* C19 witness: a session started and stopped before its hash check, then
\* checked, started and stopped again.
C19_Witness ==
  /\ events[1] = <<TRACKER_STOPPED, TRACKER_STARTED, TRACKER_STOPPED>>
  /\ result.op = "stop" /\ result.cause = "none"

\* The step is a stop() of d that found it started.
StopActs(d) ==
  result'.op = "stop" /\ result'.d = d /\ result'.cause = "none"

\* C20: stop() leaves the tracker busy, with the request it sent or one sent
\* before, so the session is not idle right after it; and, the tracker
\* answering every request, a session that is not started either is
\* started again or is eventually idle for good.
C20_StoppedEventuallyIdle ==
  /\ [][StopActs(1) => dl'[1].is_busy /\ ~isStopped(1)']_vars
  /\ [](~dl[1].m_started => (<>[]isStopped(1)) \/ <>dl[1].m_started)

\* C20 witness: the tracker has answered the request of stop(), and the
\* session is idle.
C20_Witness ==
  /\ result.op = "tracker_reply"
  /\ events[1] # <<>>
  /\ events[1][Len(events[1])] = TRACKER_STOPPED
  /\ isStopped(1)

====
